---- MODULE Spec2Model ----
(***************************************************************************)
(* Model of the metric extractor (src/main.py, main): the traversal of     *)
(* generations, devices and qubits, the three calibration fields read per  *)
(* qubit, the row list, the per-device and per-generation accumulators,    *)
(* the printed statistics and the exported file; and of the plotter        *)
(* (src/plot_graphs.py): the cleaning of the roadmap table, the trend fits *)
(* and the sequence of renderers.  The two programs share no state: a      *)
(* specification runs one of them and leaves the other at its start.       *)
(*                                                                         *)
(* Numbers are fixed point.  A coherence time as the library yields it     *)
(* (seconds) is an integer count of 10 ps (1e-11 s); a time in             *)
(* microseconds is an integer count of 1e-6 us, so the program's "* 1e6"   *)
(* is "* 10" on the counts.  A readout error as the library yields it (a   *)
(* fraction) is a count of 1e-6; a percentage is a count of 1e-6 percent,  *)
(* so "* 100" is "* 100".  An optional value is a set: {} is None, {v} is  *)
(* the value v.                                                            *)
(***************************************************************************)
EXTENDS Integers, Sequences, FiniteSets, TLC

VARIABLES
    backends_by_era,   \* main.py:85  the collection: <<[name, chips]>>
    pc,                \* position of main() in its loops
    e,                 \* 1-based position of loop 1 (eras)
    c,                 \* 1-based position of loop 2 (chips of the era)
    i,                 \* loop 3 variable: qubit index, 0-based
    era_t1_values,     \* main.py:121
    era_t2_values,     \* main.py:122
    chip_t1,           \* main.py:138
    chip_t2,           \* main.py:139
    chip_ro,           \* main.py:140
    all_data_rows,     \* main.py:110
    report,            \* the statistics lines printed so far (226, 228, 237)
    file,              \* the exported file: <<>> until written (242-245)
    last,              \* what the library yielded for the qubit just processed
    yielded,           \* the times the library yielded for the device so far
    measured,          \* <<era, chip, index, time>> of every first time yielded
    era_devices,       \* the lists of the devices of the generation done so far
    visited,           \* <<era, chip, index>> of every pass of loop 3 so far
    era_before,        \* the lists of the generation when loop 2 took the device
    data_file,         \* plot_graphs.py:25  the input file: {} if it does not exist
    ppc,               \* position of the plotter's __main__ block
    df,                \* plot_graphs.py:530  what load_and_clean_data returned
    df_lines,          \* plot_graphs.py:537  the table of trend lines
    fit_calls,         \* the invocations of process_fit so far, with their results
    warnings,          \* the warnings printed so far (plot_graphs.py:48)
    saved,             \* the image files written so far (545-569)
    raised             \* the exception that left the plotter, "" if none

main_vars == <<backends_by_era, pc, e, c, i, era_t1_values, era_t2_values,
               chip_t1, chip_t2, chip_ro, all_data_rows, report, file, last,
               yielded, measured, era_devices, visited, era_before>>

plot_vars == <<data_file, ppc, df, df_lines, fit_calls, warnings, saved, raised>>

vars == <<backends_by_era, pc, e, c, i, era_t1_values, era_t2_values,
          chip_t1, chip_t2, chip_ro, all_data_rows, report, file, last,
          yielded, measured, era_devices, visited, era_before,
          data_file, ppc, df, df_lines, fit_calls, warnings, saved, raised>>

----------------------------------------------------------------------------
(* Bounds of the model *)

\* qubits per device that the model visits (the devices have 27 to 156)
MaxQubits == 2
\* generations of the collection that the model visits
MaxEras == 2
\* devices per generation that the model visits
MaxChips == 2
\* qubits per device in the model of the statistics
StatQubits == 3
\* rows of the roadmap table in the model of the cleaning
MaxCleanRows == 3
\* rows of the roadmap table in the model of the fits and renderers
MaxRows == 3

----------------------------------------------------------------------------
(* Optional values *)

None == {}
Some(v) == {v}
IsNone(o) == o = {}
Val(o) == CHOOSE v \in o : TRUE

Min(a, b) == IF a < b THEN a ELSE b

----------------------------------------------------------------------------
(* The collection of devices, main.py:64-90.  A class name is the sequence *)
(* of its parts, so that the removal of "Fake" and "V2" is a computation;  *)
(* qubits is what target.num_qubits yields for the device.                 *)

Device(parts, n) == [cls |-> parts, qubits |-> n]

FullCollection ==
    << [name |-> "Falcon (2020/21)",
        chips |-> << Device(<<"Fake", "Hanoi", "V2">>, 27),
                     Device(<<"Fake", "Cairo", "V2">>, 27),
                     Device(<<"Fake", "Kolkata", "V2">>, 27) >>],
       [name |-> "Eagle R1 (2022)",
        chips |-> << Device(<<"Fake", "Washington", "V2">>, 127) >>],
       [name |-> "Eagle R3 (2023)",
        chips |-> << Device(<<"Fake", "Sherbrooke">>, 127),
                     Device(<<"Fake", "Brisbane">>, 127),
                     Device(<<"Fake", "Kyoto">>, 127),
                     Device(<<"Fake", "Osaka">>, 127) >>],
       [name |-> "Heron (2024)",
        chips |-> << Device(<<"Fake", "Torino">>, 133),
                     Device(<<"Fake", "Fez">>, 156),
                     Device(<<"Fake", "Marrakesh">>, 156) >>] >>

\* the first eras generations of the collection, the first chips devices of
\* each, the first qubits qubits of each
Bounded(eras, chips, qubits) ==
    [g \in 1..Min(eras, Len(FullCollection)) |->
        [name |-> FullCollection[g].name,
         chips |-> [d \in 1..Min(chips, Len(FullCollection[g].chips)) |->
                      Device(FullCollection[g].chips[d].cls,
                             Min(qubits, FullCollection[g].chips[d].qubits))]]]

\* str.replace(part, "") on a class name
Replace(s, part) == SelectSeq(s, LAMBDA t : t # part)

RECURSIVE Join(_)
\* the string made of the parts of a name
Join(s) == IF s = <<>> THEN "" ELSE Head(s) \o Join(Tail(s))

\* the name cut after the prefix instead of around it
chip_name_prefix(raw_name) == Head(raw_name)

\* main.py:129-130
chip_name_of(raw_name) == Join(Replace(Replace(raw_name, "Fake"), "V2"))

----------------------------------------------------------------------------
(* Numbers *)

\* a float: a number n/d, or numpy's nan or inf
Num(v) == [k |-> "num", n |-> v, d |-> 1]
NaN == [k |-> "nan", n |-> 0, d |-> 1]
Inf == [k |-> "inf", n |-> 0, d |-> 1]
IsZero(x) == x.k = "num" /\ x.n = 0

\* main.py:157, 163  "* 1e6": seconds (counts of 1e-11 s) to microseconds
\* (counts of 1e-6 us)
ToMicro(t) == t * 10

\* main.py:170, 179, 191  "* 100": a fraction (counts of 1e-6) to a
\* percentage (counts of 1e-6 percent)
ToPct(r) == r * 100

\* x / unit rounded to the nearest integer, a tie to the even one
RoundHalfEven(x, unit) ==
    LET q == x \div unit
        r == x % unit
    IN  IF 2 * r < unit THEN q
        ELSE IF 2 * r > unit THEN q + 1
        ELSE IF q % 2 = 0 THEN q ELSE q + 1

Pad4(d) ==
    IF d < 10 THEN "000" \o ToString(d)
    ELSE IF d < 100 THEN "00" \o ToString(d)
    ELSE IF d < 1000 THEN "0" \o ToString(d)
    ELSE ToString(d)

\* main.py:203-205  f"{x:.4f}" of a value x >= 0 given in counts of 1e-6
Fmt4(x) ==
    LET n == RoundHalfEven(x, 100)
    IN  ToString(n \div 10000) \o "." \o Pad4(n % 10000)

\* the middle element of the list as it stands, unsorted
MedianUnsorted(s) ==
    IF s = <<>> THEN NaN
    ELSE LET n == Len(s)
         IN  IF n % 2 = 1 THEN Num(s[(n + 1) \div 2])
             ELSE Num((s[n \div 2] + s[n \div 2 + 1]) \div 2)

\* numpy.median of a list of floats (main.py:214, 215, 222, 234, 235): nan
\* for the empty list.  The values of the model are even counts, so the
\* mean of the two middle values is a count again.
Median(s) ==
    IF s = <<>> THEN NaN
    ELSE LET t == SortSeq(s, LAMBDA a, b : a < b)
             n == Len(t)
         IN  IF n % 2 = 1 THEN Num(t[(n + 1) \div 2])
             ELSE Num((t[n \div 2] + t[n \div 2 + 1]) \div 2)

\* x / y on numpy floats: a zero divisor yields nan or inf (and a warning),
\* never an exception
Div(x, y) ==
    IF x.k = "nan" \/ y.k = "nan" THEN NaN
    ELSE IF y.n = 0 THEN (IF x.n = 0 THEN NaN ELSE Inf)
    ELSE [k |-> "num", n |-> x.n * y.d, d |-> x.d * y.n]

----------------------------------------------------------------------------
(* What the library yields for one qubit of one device *)

\* the outcome of reading one readout-error source: nothing (the attribute,
\* the operation or its entry is missing or None), an exception, or a value
Null == [k |-> "null", v |-> 0]
Raise == [k |-> "raise", v |-> 0]
Yield(v) == [k |-> "val", v |-> v]

\* coherence times as yielded (counts of 1e-11 s): 0 s, 100.12346 us, 80.54321 us
T1Opt == {None, Some(0), Some(10012346)}
T2Opt == {None, Some(0), Some(8054321)}

\* readout errors as yielded (counts of 1e-6), one non-zero value per source
SrcA == {Null, Raise, Yield(0), Yield(11000)}
SrcB == {Null, Raise, Yield(0), Yield(22000)}
SrcC == {Null, Raise, Yield(0), Yield(33000)}

\* fetch: target.qubit_properties[i] raises, is falsy, or is an object with
\* t1 and t2; a, b, c: the three readout-error sources for this qubit
NoProps(f) == [fetch |-> f, t1 |-> None, t2 |-> None, a |-> Null, b |-> Null, c |-> Null]

ReadingsFull ==
    {NoProps("raise"), NoProps("none")} \cup
    [fetch : {"ok"}, t1 : T1Opt, t2 : T2Opt, a : SrcA, b : SrcB, c : SrcC]

\* the readings of the traversal model: times present or not, no readout
\* error except from the direct property
ReadingsTraversal ==
    {rd \in ReadingsFull :
        /\ rd.fetch \in {"ok", "raise"}
        /\ rd.b = Null /\ rd.c = Null
        /\ rd.a # Yield(0)
        /\ rd.t2 # Some(0)
        /\ rd.t1 = Some(0) => IsNone(rd.t2)
        /\ rd.a.k = "val" => (IsNone(rd.t1) <=> IsNone(rd.t2)) /\ rd.t1 # Some(0)
        /\ rd.a = Raise => ~IsNone(rd.t1) /\ rd.t1 # Some(0) /\ IsNone(rd.t2)}

\* the readings of the model of a whole run: every way a pass of loop 3 can
\* fail (no properties, an accessor that raises) or find nothing, and one
\* reading with a first time
ReadingsRun ==
    {rd \in ReadingsFull :
        /\ IsNone(rd.t2)
        /\ rd.t1 # Some(0)
        /\ rd.a \in {Null, Raise} /\ rd.b \in {Null, Raise} /\ rd.c = rd.b
        /\ rd.a = Raise => rd.b = Null /\ ~IsNone(rd.t1)
        /\ rd.b = Raise => ~IsNone(rd.t1)}

\* the readings of the model of the statistics: the first time only
ReadingsTimes ==
    {rd \in ReadingsFull :
        rd.fetch = "ok" /\ IsNone(rd.t2) /\ rd.a = Null /\ rd.b = Null /\ rd.c = Null}

----------------------------------------------------------------------------
(* The body of loop 3, main.py:144-210 *)

\* main.py:148-149  the properties are there and truthy
FetchOk(rd) == rd.fetch = "ok"

\* main.py:151, 156-157
ReadT1(rd) == IF IsNone(rd.t1) THEN None ELSE Some(ToMicro(Val(rd.t1)))

\* main.py:152, 162-163
ReadT2(rd) == IF IsNone(rd.t2) THEN None ELSE Some(ToMicro(Val(rd.t2)))

\* main.py:169-170  attempt A is not inside a try of its own: an exception
\* leaves through the handler of line 209
AttemptA(rd) ==
    IF rd.a.k = "raise" THEN [raised |-> TRUE, ro |-> None]
    ELSE IF rd.a.k = "val" THEN [raised |-> FALSE, ro |-> Some(ToPct(rd.a.v))]
    ELSE [raised |-> FALSE, ro |-> None]

\* main.py:173-180  "getattr(op_props, 'error', None)" is tested for truth
AttemptB(rd, ro_val) ==
    IF ~IsNone(ro_val) THEN ro_val
    ELSE IF rd.b.k = "val" /\ rd.b.v # 0 THEN Some(ToPct(rd.b.v))
    ELSE None

\* main.py:185-192
AttemptC(rd, ro_val) ==
    IF ~IsNone(ro_val) THEN ro_val
    ELSE IF rd.c.k = "val" THEN Some(ToPct(rd.c.v))
    ELSE None

\* main.py:167-192  the fallback chain
ResolveRo(rd) ==
    LET ra == AttemptA(rd)
    IN  IF ra.raised THEN ra
        ELSE [raised |-> FALSE, ro |-> AttemptC(rd, AttemptB(rd, ra.ro))]

\* main.py:198
KeepRow(t1_val) == ~IsNone(t1_val)

\* main.py:204  "if t2_val": None and 0.0 are both false
T2Field(t2_val) == IF ~IsNone(t2_val) /\ Val(t2_val) # 0 THEN Fmt4(Val(t2_val)) ELSE ""

\* main.py:205
RoField(ro_val) == IF ~IsNone(ro_val) THEN Fmt4(Val(ro_val)) ELSE ""

\* the row with the first time written as the second one is
MakeRowFalsyT1(era_name, chip_name, idx, t1_val, t2_val, ro_val) ==
    <<era_name, chip_name, idx, T2Field(t1_val), T2Field(t2_val), RoField(ro_val)>>

\* main.py:199-206
MakeRow(era_name, chip_name, idx, t1_val, t2_val, ro_val) ==
    <<era_name, chip_name, idx, Fmt4(Val(t1_val)), T2Field(t2_val), RoField(ro_val)>>

OptSeq(o) == IF IsNone(o) THEN <<>> ELSE <<Val(o)>>

\* the body with lines 194-195 moved under the test of line 198
QubitBodyRoWithRow(rd, era_name, chip_name, idx) ==
    IF ~FetchOk(rd) THEN [t1 |-> <<>>, t2 |-> <<>>, ro |-> <<>>, rows |-> <<>>]
    ELSE LET t1_val == ReadT1(rd)
             t2_val == ReadT2(rd)
             res == ResolveRo(rd)
         IN  [t1 |-> OptSeq(t1_val),
              t2 |-> OptSeq(t2_val),
              ro |-> IF ~res.raised /\ KeepRow(t1_val) THEN OptSeq(res.ro) ELSE <<>>,
              rows |-> IF ~res.raised /\ KeepRow(t1_val)
                       THEN <<MakeRow(era_name, chip_name, idx, t1_val, t2_val, res.ro)>>
                       ELSE <<>>]

\* what one pass of the body appends to the lists: t1 to chip_t1 and
\* era_t1_values, t2 to chip_t2 and era_t2_values, ro to chip_ro, rows to
\* all_data_rows.  An exception (line 209) ends the pass where it is raised.
QubitBody(rd, era_name, chip_name, idx) ==
    IF ~FetchOk(rd) THEN [t1 |-> <<>>, t2 |-> <<>>, ro |-> <<>>, rows |-> <<>>]
    ELSE LET t1_val == ReadT1(rd)
             t2_val == ReadT2(rd)
             res == ResolveRo(rd)
         IN  [t1 |-> OptSeq(t1_val),
              t2 |-> OptSeq(t2_val),
              ro |-> IF res.raised THEN <<>> ELSE OptSeq(res.ro),
              rows |-> IF ~res.raised /\ KeepRow(t1_val)
                       THEN <<MakeRow(era_name, chip_name, idx, t1_val, t2_val, res.ro)>>
                       ELSE <<>>]

----------------------------------------------------------------------------
(* Statistics, main.py:213-237 *)

\* main.py:218
ChipRatio(med_t1, med_t2) == IF med_t1.n > 0 THEN Div(med_t2, med_t1) ELSE Num(0)

\* main.py:236
EraRatio(grand_t1, grand_t2) == Div(grand_t2, grand_t1)

\* the line printed for a device, with the test of line 213 on the second
\* list
ChipLineTestsT2(chip_name, t1s, t2s, ros) ==
    IF t2s # <<>>
    THEN LET med_t1 == Median(t1s)
             med_t2 == Median(t2s)
         IN  [kind |-> "chip", name |-> chip_name, n |-> Len(t1s),
              t1 |-> med_t1, t2 |-> med_t2,
              ratio |-> ChipRatio(med_t1, med_t2),
              ro |-> IF ros # <<>> THEN Median(ros) ELSE NaN]
    ELSE [kind |-> "insufficient", name |-> chip_name, n |-> 0,
          t1 |-> NaN, t2 |-> NaN, ratio |-> NaN, ro |-> NaN]

\* main.py:213-228  the line printed for a device
ChipLine(chip_name, t1s, t2s, ros) ==
    IF t1s # <<>>
    THEN LET med_t1 == Median(t1s)
             med_t2 == IF t2s # <<>> THEN Median(t2s) ELSE Num(0)
         IN  [kind |-> "chip", name |-> chip_name, n |-> Len(t1s),
              t1 |-> med_t1, t2 |-> med_t2,
              ratio |-> ChipRatio(med_t1, med_t2),
              ro |-> IF ros # <<>> THEN Median(ros) ELSE NaN]
    ELSE [kind |-> "insufficient", name |-> chip_name, n |-> 0,
          t1 |-> NaN, t2 |-> NaN, ratio |-> NaN, ro |-> NaN]

\* the line of the generation printed without the test of line 233
EraLinesUnguarded(era_name, t1s, t2s) ==
    LET grand_t1 == Median(t1s)
        grand_t2 == Median(t2s)
    IN  << [kind |-> "era", name |-> era_name, n |-> Len(t1s),
            t1 |-> grand_t1, t2 |-> grand_t2,
            ratio |-> EraRatio(grand_t1, grand_t2), ro |-> NaN] >>

\* main.py:233-237  the line printed for a generation, if any
EraLines(era_name, t1s, t2s) ==
    IF t1s # <<>>
    THEN LET grand_t1 == Median(t1s)
             grand_t2 == Median(t2s)
         IN  << [kind |-> "era", name |-> era_name, n |-> Len(t1s),
                 t1 |-> grand_t1, t2 |-> grand_t2,
                 ratio |-> EraRatio(grand_t1, grand_t2), ro |-> NaN] >>
    ELSE <<>>

----------------------------------------------------------------------------
(* Export, main.py:106, 242-245 *)

header == <<"Era", "Chip", "Qubit_Index", "T1_us", "T2_us", "Readout_Error_Pct">>

\* csv.writer writes str(field) for a field that is not a string: the index
CsvRow(row) == <<row[1], row[2], ToString(row[3]), row[4], row[5], row[6]>>

WriteCsv(rows) == <<header>> \o [k \in 1..Len(rows) |-> CsvRow(rows[k])]

----------------------------------------------------------------------------
(* The roadmap table, plot_graphs.py:41-91.  The text of a cell is the     *)
(* sequence of its characters.  A count is in thousandths, so that "7.5"   *)
(* is a number: 7500.  A roadmap year and a year are integers (the program *)
(* keeps the roadmap year as text of four digits).                         *)

Digits == {"0", "1", "2", "3", "4", "5", "6", "7", "8", "9"}

DigitVal(ch) ==
    CASE ch = "0" -> 0 [] ch = "1" -> 1 [] ch = "2" -> 2 [] ch = "3" -> 3
      [] ch = "4" -> 4 [] ch = "5" -> 5 [] ch = "6" -> 6 [] ch = "7" -> 7
      [] ch = "8" -> 8 [] ch = "9" -> 9

RECURSIVE IntOf(_)
\* the number written by a sequence of digits
IntOf(s) == IF s = <<>> THEN 0 ELSE 10 * IntOf(SubSeq(s, 1, Len(s) - 1)) + DigitVal(s[Len(s)])

AllDigits(s) == \A k \in 1..Len(s) : s[k] \in Digits

\* up to three decimals, in thousandths
FracOf(s) ==
    IF Len(s) = 0 THEN 0
    ELSE IF Len(s) = 1 THEN 100 * IntOf(s)
    ELSE IF Len(s) = 2 THEN 10 * IntOf(s)
    ELSE IntOf(SubSeq(s, 1, 3))

\* float(text): the number in thousandths, or None where float() raises and
\* to_numeric finds no number.  Text of digits with at most one point.
ParseFloat(s) ==
    LET dots == {k \in 1..Len(s) : s[k] = "."}
    IN  IF s # <<>> /\ AllDigits(s) THEN Some(1000 * IntOf(s))
        ELSE IF Cardinality(dots) = 1
        THEN LET d == CHOOSE k \in dots : TRUE
                 ip == SubSeq(s, 1, d - 1)
                 fp == SubSeq(s, d + 1, Len(s))
             IN  IF AllDigits(ip) /\ AllDigits(fp) /\ Len(ip) + Len(fp) > 0
                 THEN Some(1000 * IntOf(ip) + FracOf(fp))
                 ELSE None
        ELSE None

\* plot_graphs.py:51, 66  read_csv gives the column the object dtype (text)
\* unless every cell is a number or empty
IsObject(cells) ==
    \E k \in 1..Len(cells) : cells[k] # <<>> /\ IsNone(ParseFloat(cells[k]))

\* plot_graphs.py:72  str.contains('K', case=False)
ContainsK(s) == \E k \in 1..Len(s) : s[k] \in {"K", "k"}

\* plot_graphs.py:76  str.replace('K', '', case=False)
RemoveK(s) == SelectSeq(s, LAMBDA ch : ch \notin {"K", "k"})

\* the multiplier left out
KScaleNone(x) == x

\* plot_graphs.py:77  "* 1000"
KScale(x) == 1000 * x

\* plot_graphs.py:66-84 for one cell of a column of text: [raised, value].
\* The comma is removed (68); a cell with a K has its K removed and
\* astype(float) applied, which raises on what is no number (75-77); any
\* other cell goes to to_numeric, which gives NaN for what is no number (84)
CleanCell(s) ==
    LET t == Replace(s, ",")
    IN  IF ContainsK(t)
        THEN IF IsNone(ParseFloat(RemoveK(t)))
             THEN [raised |-> TRUE, value |-> None]
             ELSE [raised |-> FALSE, value |-> Some(KScale(Val(ParseFloat(RemoveK(t)))))]
        ELSE [raised |-> FALSE, value |-> ParseFloat(t)]

\* plot_graphs.py:66-90  the table with its counts cleaned and the rows
\* without a count dropped, or the exception of line 77
CleanTable(table) ==
    LET cells == [k \in 1..Len(table) |-> table[k].Qubits]
        value(k) == IF IsObject(cells) THEN CleanCell(cells[k]).value
                    ELSE ParseFloat(cells[k])
        kept == SelectSeq([k \in 1..Len(table) |-> k], LAMBDA k : ~IsNone(value(k)))
    IN  IF IsObject(cells) /\ \E k \in 1..Len(cells) : CleanCell(cells[k]).raised
        THEN [raised |-> "ValueError", rows |-> <<>>]
        ELSE [raised |-> "",
              rows |-> [j \in 1..Len(kept) |->
                          [Roadmap_Year |-> table[kept[j]].Roadmap_Year,
                           Qubits |-> Val(value(kept[j])),
                           Status |-> table[kept[j]].Status,
                           Label |-> table[kept[j]].Label,
                           Year |-> table[kept[j]].Year]]]

----------------------------------------------------------------------------
(* The trend fits, plot_graphs.py:93-184.  A label is the sequence of its  *)
(* words.  log2 of a count is in thousandths.                              *)

\* str.lower on the words of the model
Lower(w) ==
    CASE w = "Nighthawk" -> "nighthawk"
      [] w = "Heron" -> "heron"
      [] w = "Condor" -> "condor"
      [] w = "IBM" -> "ibm"
      [] OTHER -> w

\* plot_graphs.py:170, 178  str.contains(word, case=False)
ContainsWord(label, word) ==
    \E k \in 1..Len(label) : Lower(label[k]) = Lower(word)

\* numpy.log2 of the counts of the model (in thousandths), in thousandths
Log2Milli(q) ==
    CASE q = 128000 -> 7000
      [] q = 1024000 -> 10000
      [] q = 1121000 -> 10131
      [] q = 7500000 -> 12873
      [] q = 10000000 -> 13288

RECURSIVE SumSeq(_)
SumSeq(s) == IF s = <<>> THEN 0 ELSE Head(s) + SumSeq(Tail(s))

\* plot_graphs.py:114-116  the slope of the least-squares line through
\* (Year, log2(Qubits)), as a fraction n / d with d > 0.  When all the
\* years are the same the system is rank deficient and lstsq gives the
\* solution of least norm, slope = mean(y) / (2 * year).
Slope(sub) ==
    LET N == Len(sub)
        x == [k \in 1..N |-> sub[k].Year]
        y == [k \in 1..N |-> Log2Milli(sub[k].Qubits)]
        Sx == SumSeq(x)
        Sy == SumSeq(y)
        Sxx == SumSeq([k \in 1..N |-> x[k] * x[k]])
        Sxy == SumSeq([k \in 1..N |-> x[k] * y[k]])
        D == N * Sxx - Sx * Sx
    IN  IF D = 0 THEN [n |-> Sy, d |-> 2 * Sx]
        ELSE [n |-> N * Sxy - Sx * Sy, d |-> D]

\* plot_graphs.py:119-120  log2 of the value of the fitted line at year x,
\* in thousandths, as a fraction: mean(y) + slope * (x - mean(x))
Predict(sub, x) ==
    LET N == Len(sub)
        Sx == SumSeq([k \in 1..N |-> sub[k].Year])
        Sy == SumSeq([k \in 1..N |-> Log2Milli(sub[k].Qubits)])
        sl == Slope(sub)
    IN  [n |-> Sy * sl.d + sl.n * (N * x - Sx), d |-> N * sl.d]

\* f"{months:.1f}" of a number of months given in tenths
Fmt1(t) == ToString(t \div 10) \o "." \o ToString(t % 10)

\* plot_graphs.py:123-129  the legend: months = 12 / slope, the slope being
\* sl.n / (1000 * sl.d) per year
Legend(trend_name_short, sl) ==
    IF sl.n > 0
    THEN trend_name_short \o " (Double: " \o
         Fmt1(RoundHalfEven(120000 * sl.d, sl.n)) \o " months)"
    ELSE trend_name_short \o " (No Growth)"

\* a fit with one point
EnoughPointsOne(sub) == Len(sub) >= 1

\* plot_graphs.py:111  "if len(sub_df) < 2: return"
EnoughPoints(sub) == Len(sub) >= 2

MinYear(sub) == CHOOSE x \in {sub[k].Year : k \in 1..Len(sub)} :
                    \A k \in 1..Len(sub) : x <= sub[k].Year
MaxYear(sub) == CHOOSE x \in {sub[k].Year : k \in 1..Len(sub)} :
                    \A k \in 1..Len(sub) : x >= sub[k].Year

\* plot_graphs.py:109-140  the rows that one invocation appends to reg_lines
process_fit(sub_df, roadmap_year, group_id, trend_name_short) ==
    IF ~EnoughPoints(sub_df) THEN <<>>
    ELSE LET legend_str == Legend(trend_name_short, Slope(sub_df))
             line(x) == [Year |-> x, Log2Qubits |-> Predict(sub_df, x),
                         Roadmap_Year |-> roadmap_year, Group_ID |-> group_id,
                         Legend_Label |-> legend_str]
         IN  <<line(MinYear(sub_df)), line(MaxYear(sub_df))>>

RoadmapYears(t) == {t[k].Roadmap_Year : k \in 1..Len(t)}

\* the year 0 stands for the NaN that max() gives for a table without rows
LatestYear(t) ==
    IF t = <<>> THEN 0
    ELSE CHOOSE y \in RoadmapYears(t) : \A z \in RoadmapYears(t) : z <= y

\* the latest roadmap year, whatever the table has
TargetYearLatest(t) == LatestYear(t)

\* plot_graphs.py:159-161  '2025', or the greatest roadmap year of a table
\* that has no '2025'
TargetYear(t) == IF 2025 \in RoadmapYears(t) THEN 2025 ELSE LatestYear(t)

\* plot_graphs.py:146-180  the invocations of process_fit, in order
FitCalls(t) ==
    LET target_year == TargetYear(t)
        call(sub, y, g, name) ==
            [sub |-> sub, roadmap_year |-> y, group_id |-> g, name |-> name]
        df_2022 == SelectSeq(t, LAMBDA r : r.Roadmap_Year = 2022 /\ r.Label # <<"Heron">>)
        df_old == SelectSeq(t, LAMBDA r :
                      /\ r.Roadmap_Year = target_year
                      /\ r.Year <= 2023
                      /\ ~ContainsWord(r.Label, "Nighthawk")
                      /\ r.Label # <<"Heron">>)
        df_new == SelectSeq(t, LAMBDA r :
                      r.Roadmap_Year = target_year /\ ContainsWord(r.Label, "Nighthawk"))
    IN  << call(SelectSeq(t, LAMBDA r : r.Roadmap_Year = 2020), 2020, "Main", "2020 Roadmap"),
           call(df_2022, 2022, "Main", "2022 Roadmap") >> \o
        (IF target_year \in RoadmapYears(t)
         THEN << call(df_old, target_year, "Old_Trend", "2025 Roadmap"),
                 call(df_new, target_year, "New_Trend", "2025 Roadmap - Nighthawk") >>
         ELSE <<>>)

\* the invocations with what each appended to reg_lines
FitLog(t) ==
    LET calls == FitCalls(t)
    IN  [k \in 1..Len(calls) |->
            [sub |-> calls[k].sub, roadmap_year |-> calls[k].roadmap_year,
             group_id |-> calls[k].group_id, name |-> calls[k].name,
             out |-> process_fit(calls[k].sub, calls[k].roadmap_year,
                                 calls[k].group_id, calls[k].name)]]

RECURSIVE Concat(_)
\* pd.concat of a list of tables
Concat(ss) == IF ss = <<>> THEN <<>> ELSE Head(ss) \o Concat(Tail(ss))

\* pd.DataFrame(): a table without rows and without columns
EmptyFrame == [cols |-> FALSE, rows |-> <<>>]

\* plot_graphs.py:184  the table of the trend lines
calculate_regression_data(t) ==
    LET log == FitLog(t)
        reg_lines == [k \in 1..Len(log) |-> log[k].out]
    IN  IF \E k \in 1..Len(reg_lines) : reg_lines[k] # <<>>
        THEN [cols |-> TRUE, rows |-> Concat(reg_lines)]
        ELSE EmptyFrame

----------------------------------------------------------------------------
(* main() as a state machine *)

\* the times of a reading, as yielded: none if there are no properties
TimesOf(rd) ==
    [t1 |-> IF rd.fetch = "ok" THEN OptSeq(rd.t1) ELSE <<>>,
     t2 |-> IF rd.fetch = "ok" THEN OptSeq(rd.t2) ELSE <<>>,
     nofetch |-> IF rd.fetch = "ok" THEN 0 ELSE 1]

\* the error rate that the chain resolved for a reading, if its pass reached
\* the end of the chain, and whether the reading has a first time
RoOf(rd) ==
    IF rd.fetch = "ok" /\ ~ResolveRo(rd).raised /\ ~IsNone(ResolveRo(rd).ro)
    THEN <<[pct |-> Val(ResolveRo(rd).ro), t1 |-> ~IsNone(rd.t1)]>>
    ELSE <<>>

NoTimes == [t1 |-> <<>>, t2 |-> <<>>, nofetch |-> 0, ro |-> <<>>]

NoReading == [rd |-> NoProps("never"), era |-> "", chip |-> "", idx |-> -1]

InitWith(collection) ==
    /\ backends_by_era = collection
    /\ pc = "era"
    /\ e = 1
    /\ c = 1
    /\ i = 0
    /\ era_t1_values = <<>>
    /\ era_t2_values = <<>>
    /\ chip_t1 = <<>>
    /\ chip_t2 = <<>>
    /\ chip_ro = <<>>
    /\ all_data_rows = <<>>
    /\ report = <<>>
    /\ file = <<>>
    /\ last = NoReading
    /\ yielded = NoTimes
    /\ measured = {}
    /\ era_devices = <<>>
    /\ visited = {}
    /\ era_before = [t1 |-> <<>>, t2 |-> <<>>]

era_name == backends_by_era[e].name
chip_list == backends_by_era[e].chips
chip_name == chip_name_of(chip_list[c].cls)
\* main.py:135
num_qubits == chip_list[c].qubits

\* the loop left at the first qubit without properties
NextIndexBreak(idx, rd) == IF rd.fetch = "ok" THEN idx + 1 ELSE num_qubits

\* main.py:144, 149, 210  the index that follows idx in range(num_qubits),
\* whatever happened at idx
NextIndex(idx, rd) == idx + 1

\* loop 1 with the lists of the generation created once, before the loop
EraBeginKeep ==
    /\ pc = "era"
    /\ e <= Len(backends_by_era)
    /\ c' = 1
    /\ pc' = "chip"
    /\ era_devices' = <<>>
    /\ UNCHANGED <<backends_by_era, e, i, era_t1_values, era_t2_values,
                   chip_t1, chip_t2, chip_ro, all_data_rows, report, file,
                   last, yielded, measured, visited, era_before>>
    /\ UNCHANGED plot_vars

\* main.py:117-122  loop 1 takes the next generation
EraBegin ==
    /\ pc = "era"
    /\ e <= Len(backends_by_era)
    /\ era_t1_values' = <<>>
    /\ era_t2_values' = <<>>
    /\ c' = 1
    /\ pc' = "chip"
    /\ era_devices' = <<>>
    /\ UNCHANGED <<backends_by_era, e, i, chip_t1, chip_t2, chip_ro,
                   all_data_rows, report, file, last, yielded, measured,
                   visited, era_before>>
    /\ UNCHANGED plot_vars

\* main.py:125-140  loop 2 takes the next device
ChipBegin ==
    /\ pc = "chip"
    /\ c <= Len(chip_list)
    /\ chip_t1' = <<>>
    /\ chip_t2' = <<>>
    /\ chip_ro' = <<>>
    /\ i' = 0
    /\ pc' = "qubit"
    /\ yielded' = NoTimes
    /\ era_before' = [t1 |-> era_t1_values, t2 |-> era_t2_values]
    /\ UNCHANGED <<backends_by_era, e, c, era_t1_values, era_t2_values,
                   all_data_rows, report, file, last, measured, era_devices,
                   visited>>
    /\ UNCHANGED plot_vars

\* main.py:144-210  one pass of loop 3, over the readings in R
ProcessQubit(R) ==
    /\ pc = "qubit"
    /\ i < num_qubits
    /\ \E rd \in R :
         LET out == QubitBody(rd, era_name, chip_name, i)
         IN  /\ chip_t1' = chip_t1 \o out.t1
             /\ era_t1_values' = era_t1_values \o out.t1
             /\ chip_t2' = chip_t2 \o out.t2
             /\ era_t2_values' = era_t2_values \o out.t2
             /\ chip_ro' = chip_ro \o out.ro
             /\ all_data_rows' = all_data_rows \o out.rows
             /\ i' = NextIndex(i, rd)
             /\ last' = [rd |-> rd, era |-> era_name, chip |-> chip_name, idx |-> i]
             /\ yielded' = [t1 |-> yielded.t1 \o TimesOf(rd).t1,
                            t2 |-> yielded.t2 \o TimesOf(rd).t2,
                            nofetch |-> yielded.nofetch + TimesOf(rd).nofetch,
                            ro |-> yielded.ro \o RoOf(rd)]
             /\ visited' = visited \cup {<<era_name, chip_name, i>>}
             /\ measured' = measured \cup
                    {<<era_name, chip_name, i, t>> : t \in
                        (IF rd.fetch = "ok" THEN rd.t1 ELSE {})}
    /\ UNCHANGED <<backends_by_era, pc, e, c, report, file, era_devices,
                   era_before>>
    /\ UNCHANGED plot_vars

\* main.py:213-228  loop 3 is over: the statistics of the device
ChipStats ==
    /\ pc = "qubit"
    /\ i >= num_qubits
    /\ report' = Append(report, ChipLine(chip_name, chip_t1, chip_t2, chip_ro))
    /\ c' = c + 1
    /\ pc' = "chip"
    /\ last' = NoReading
    /\ era_devices' = Append(era_devices, [t1 |-> chip_t1, t2 |-> chip_t2])
    /\ UNCHANGED <<backends_by_era, e, i, era_t1_values, era_t2_values,
                   chip_t1, chip_t2, chip_ro, all_data_rows, file, yielded,
                   measured, visited, era_before>>
    /\ UNCHANGED plot_vars

\* main.py:233-239  loop 2 is over: the statistics of the generation
EraSummary ==
    /\ pc = "chip"
    /\ c > Len(chip_list)
    /\ report' = report \o EraLines(era_name, era_t1_values, era_t2_values)
    /\ e' = e + 1
    /\ pc' = "era"
    /\ UNCHANGED <<backends_by_era, c, i, era_t1_values, era_t2_values,
                   chip_t1, chip_t2, chip_ro, all_data_rows, file, last,
                   yielded, measured, era_devices, visited, era_before>>
    /\ UNCHANGED plot_vars

\* main.py:242-245  loop 1 is over: the file is written
Export ==
    /\ pc = "era"
    /\ e > Len(backends_by_era)
    /\ file' = WriteCsv(all_data_rows)
    /\ pc' = "done"
    /\ UNCHANGED <<backends_by_era, e, c, i, era_t1_values, era_t2_values,
                   chip_t1, chip_t2, chip_ro, all_data_rows, report, last,
                   yielded, measured, era_devices, visited, era_before>>
    /\ UNCHANGED plot_vars

\* the plotter before it runs, without an input file
PlotterIdle ==
    /\ data_file = None
    /\ ppc = "load"
    /\ df = None
    /\ df_lines = EmptyFrame
    /\ fit_calls = <<>>
    /\ warnings = 0
    /\ saved = <<>>
    /\ raised = ""

Step(R) ==
    \/ EraBegin
    \/ ChipBegin
    \/ ProcessQubit(R)
    \/ ChipStats
    \/ EraSummary
    \/ Export

\* the traversal of the collection within the bounds
Init == InitWith(Bounded(MaxEras, MaxChips, MaxQubits)) /\ PlotterIdle
Next == Step(ReadingsTraversal)
Spec == Init /\ [][Next]_vars

\* one device, every reading
InitDevice == InitWith(Bounded(1, 1, MaxQubits)) /\ PlotterIdle
NextDevice == Step(ReadingsFull)
SpecDevice == InitDevice /\ [][NextDevice]_vars

\* the devices of one generation, more qubits each, the first time only
InitStat == InitWith(Bounded(1, MaxChips, StatQubits)) /\ PlotterIdle
NextStat == Step(ReadingsTimes)
SpecStat == InitStat /\ [][NextStat]_vars

\* a whole run: main() is sequential and takes its next step as long as it
\* has one
InitRun == InitWith(Bounded(MaxEras, MaxChips, MaxQubits)) /\ PlotterIdle
NextRun == Step(ReadingsRun)
SpecRun == InitRun /\ [][NextRun]_vars /\ WF_vars(NextRun)

----------------------------------------------------------------------------
(* The plotter's __main__ block as a state machine, plot_graphs.py:526-571 *)

\* the test of line 533 left out
RunsPipelineAlways(d) == TRUE

\* plot_graphs.py:533  "if df is not None"
RunsPipeline(d) == ~IsNone(d)

\* plot_graphs.py:530, 41-91  load_and_clean_data()
Load ==
    /\ ppc = "load"
    /\ IF IsNone(data_file)
       THEN /\ warnings' = warnings + 1
            /\ df' = None
            /\ ppc' = "main"
            /\ raised' = raised
       ELSE LET res == CleanTable(Val(data_file))
            IN  /\ warnings' = warnings
                /\ df' = IF res.raised = "" THEN Some(res.rows) ELSE None
                /\ ppc' = IF res.raised = "" THEN "main" ELSE "failed"
                /\ raised' = res.raised
    /\ UNCHANGED <<data_file, df_lines, fit_calls, saved>>
    /\ UNCHANGED main_vars

\* plot_graphs.py:533  no table: nothing else is done
MainSkip ==
    /\ ppc = "main"
    /\ ~RunsPipeline(df)
    /\ ppc' = "done"
    /\ UNCHANGED <<data_file, df, df_lines, fit_calls, warnings, saved, raised>>
    /\ UNCHANGED main_vars

\* plot_graphs.py:533-537  calculate_regression_data(df); subscripting None
\* raises TypeError
Fit ==
    /\ ppc = "main"
    /\ RunsPipeline(df)
    /\ IF IsNone(df)
       THEN /\ ppc' = "failed"
            /\ raised' = "TypeError"
            /\ UNCHANGED <<fit_calls, df_lines>>
       ELSE /\ fit_calls' = FitLog(Val(df))
            /\ df_lines' = calculate_regression_data(Val(df))
            /\ ppc' = "plot_full"
            /\ raised' = raised
    /\ UNCHANGED <<data_file, df, warnings, saved>>
    /\ UNCHANGED main_vars

\* what plot_roadmap_evolution and the two save calls may raise.  Line 197
\* assigns the result of df.apply, which for a table without rows is a
\* table, not a column; the trend lines are drawn from a table that has no
\* column when no fit was made.  Whether these raise depends on the
\* versions of pandas and plotnine: both outcomes are taken.
FullOutcomes(t, lines) ==
    IF t = <<>> THEN {"", "ValueError"}
    ELSE IF ~lines.cols THEN {"", "PlotnineError"}
    ELSE {""}

\* plot_graphs.py:306-321  plot_standalone_2022: line 307 reads the column
\* 'Roadmap_Year' of the trend lines (KeyError on pd.DataFrame()); line 320
\* is int() of the minimum of no value, NaN (ValueError)
Standalone2022Raises(t, lines) ==
    IF ~lines.cols THEN "KeyError"
    ELSE IF \A k \in 1..Len(t) : t[k].Roadmap_Year # 2022 THEN "ValueError"
    ELSE ""

\* plot_graphs.py:412-413  plot_graphical_abstract: the same read
AbstractRaises(t, lines) == IF ~lines.cols THEN "KeyError" ELSE ""

\* the end of a renderer and of its two save calls
Rendered(exc, files, next_ppc) ==
    /\ raised' = exc
    /\ ppc' = IF exc = "" THEN next_ppc ELSE "failed"
    /\ saved' = IF exc = "" THEN saved \o files ELSE saved
    /\ UNCHANGED <<data_file, df, df_lines, fit_calls, warnings>>

\* plot_graphs.py:540-545
PlotFull ==
    /\ ppc = "plot_full"
    /\ \E exc \in FullOutcomes(Val(df), df_lines) :
         Rendered(exc, <<"roadmap_evolution_full.png", "roadmap_evolution_full.pdf">>,
                  "plot_2022")
    /\ UNCHANGED main_vars

\* plot_graphs.py:548-557
Plot2022 ==
    /\ ppc = "plot_2022"
    /\ Rendered(Standalone2022Raises(Val(df), df_lines),
                <<"roadmap_2022_detail.png", "roadmap_2022_detail.pdf">>,
                "plot_abstract")
    /\ UNCHANGED main_vars

\* plot_graphs.py:560-569
PlotAbstract ==
    /\ ppc = "plot_abstract"
    /\ Rendered(AbstractRaises(Val(df), df_lines),
                <<"roadmap_2022_graphical_abstract.png",
                  "roadmap_2022_graphical_abstract.pdf">>,
                "done")
    /\ UNCHANGED main_vars

PlotStep ==
    \/ Load
    \/ MainSkip
    \/ Fit
    \/ PlotFull
    \/ Plot2022
    \/ PlotAbstract

\* the plotter at its start, the input file being one of files; the
\* extractor does not run
PlotInit(files) ==
    /\ InitWith(<<>>)
    /\ data_file \in files
    /\ ppc = "load"
    /\ df = None
    /\ df_lines = EmptyFrame
    /\ fit_calls = <<>>
    /\ warnings = 0
    /\ saved = <<>>
    /\ raised = ""

\* the tables of at most n rows taken from rows
Tables(rows, n) == UNION {[1..m -> rows] : m \in 0..n}

\* no file, or a file with one of the tables
Files(tables) == {None} \cup {Some(t) : t \in tables}

\* the texts of the count cell in the model of the cleaning
Cells ==
    { <<"1", "2", "8">>,
      <<"1", "0", ",", "0", "0", "0">>,
      <<"1", ",", "1", "2", "1">>,
      <<"7", ".", "5", "K">>,
      <<"7", ".", "5", "k">>,
      <<"a", "b", "c">>,
      <<>>,
      <<"a", "K">>,
      <<"K">> }

Row(ry, cell, label, year) ==
    [Roadmap_Year |-> ry, Qubits |-> cell, Status |-> "Executed",
     Label |-> label, Year |-> year]

\* the cleaning: tables whose rows differ by the count cell
CleanRows == {Row(2022, cell, <<"Eagle">>, 2022) : cell \in Cells}
InitClean == PlotInit(Files(Tables(CleanRows, MaxCleanRows)))
SpecClean == InitClean /\ [][PlotStep]_vars

\* the fits and the renderers: tables of plain counts whose rows differ by
\* the roadmap year, the label, the year and the count
Labels == { <<"Heron">>, <<"Condor">>, <<"IBM", "nighthawk">> }
PlotRows ==
    {Row(ry, cell, label, year) :
        ry \in {2020, 2022, 2025, 2027},
        cell \in { <<"1", "2", "8">>, <<"1", "0", "2", "4">> },
        label \in Labels,
        year \in {2021, 2024}}
InitPlot == PlotInit(Files(Tables(PlotRows, MaxRows)))
SpecPlot == InitPlot /\ [][PlotStep]_vars

----------------------------------------------------------------------------
(* Properties of the body of loop 3 (SpecDevice) *)

\* a qubit has just been processed: last is its reading
Processed == last.idx >= 0

\* the positions of the rows of the qubit just processed
RowsOfLast ==
    {k \in 1..Len(all_data_rows) :
        /\ all_data_rows[k][1] = last.era
        /\ all_data_rows[k][2] = last.chip
        /\ all_data_rows[k][3] = last.idx}

LastRow == all_data_rows[CHOOSE k \in RowsOfLast : TRUE]

HasT1(rd) == rd.fetch = "ok" /\ ~IsNone(rd.t1)

\* C1: every row of the row list has a non-empty Duration A field, and a
\* qubit whose Duration A is absent (or that has no properties) has no row.
C1_DurationAInEveryRow ==
    /\ \A k \in 1..Len(all_data_rows) : all_data_rows[k][4] # ""
    /\ (Processed /\ ~HasT1(last.rd)) => RowsOfLast = {}

\* a qubit with Duration B and an error rate but no Duration A has just
\* been processed, after a qubit that has a row
C1_Witness ==
    /\ Processed
    /\ last.rd.fetch = "ok" /\ IsNone(last.rd.t1)
    /\ ~IsNone(last.rd.t2) /\ last.rd.a.k = "val"
    /\ chip_t2 # <<>> /\ chip_ro # <<>>
    /\ all_data_rows # <<>>

\* C2 (as claimed): a qubit whose properties were fetched has exactly one
\* row if Duration A is present and none otherwise, whatever Duration B and
\* the error-rate sources did.
C2_RowIffDurationA ==
    (Processed /\ last.rd.fetch = "ok") =>
        Cardinality(RowsOfLast) = (IF IsNone(last.rd.t1) THEN 0 ELSE 1)

\* the step of loop 3 that is about to be taken, or has just been taken
InLoop3 == pc = "qubit" /\ i < num_qubits

\* C3: a pass of loop 3 that finds no properties for qubit i (the accessor
\* raises or yields nothing) appends no row and nothing to any accumulator,
\* and the loop goes on with index i + 1, which is the next one processed.
C3_FailedFetchIsLocal ==
    [][ /\ (InLoop3 /\ last'.rd.fetch # "ok") =>
            /\ UNCHANGED <<all_data_rows, chip_t1, chip_t2, chip_ro,
                           era_t1_values, era_t2_values>>
            /\ pc' = "qubit"
            /\ i' = i + 1
        /\ (InLoop3 /\ Processed /\ last.rd.fetch # "ok") =>
            last'.idx = last.idx + 1
      ]_vars

\* qubit 0 had no properties and qubit 1, processed after it, has a row
C3_Witness ==
    /\ Processed /\ last.idx = 1 /\ HasT1(last.rd) /\ last.rd.a = Null
    /\ Len(all_data_rows) = 1 /\ RowsOfLast # {}
    /\ yielded.nofetch = 1

\* the first of the sources a, b, c that yields a value, 0 included
FirstYield(rd) ==
    IF rd.a.k = "val" THEN Some(rd.a.v)
    ELSE IF rd.b.k = "val" THEN Some(rd.b.v)
    ELSE IF rd.c.k = "val" THEN Some(rd.c.v)
    ELSE None

\* the error field that a percentage, or none, is written as
PctField(o) == IF IsNone(o) THEN "" ELSE Fmt4(100 * Val(o))

\* C4 (as claimed): the error rate of a qubit is 100 times the value of the
\* first source, in the order a, b, c, that yields a value, whatever the
\* value is (0 included).
C4_FirstSourceWins ==
    (Processed /\ HasT1(last.rd) /\ RowsOfLast # {}) =>
        LastRow[6] = PctField(FirstYield(last.rd))

\* a reading with the exceptions of its sources taken as nothing found
Quiet(src) == IF src = Raise THEN Null ELSE src
QuietReading(rd) == [rd EXCEPT !.a = Quiet(@), !.b = Quiet(@), !.c = Quiet(@)]

\* C5 (as claimed): a source a, b or c that raises counts as not found:
\* the qubit is not skipped, its row is emitted when Duration A is present,
\* and the chain goes on with the next source.
C5_RaisingSourceIsNotFound ==
    (Processed /\ HasT1(last.rd)
        /\ (last.rd.a = Raise \/ last.rd.b = Raise \/ last.rd.c = Raise)) =>
        /\ RowsOfLast # {}
        /\ LastRow[6] = RoField(ResolveRo(QuietReading(last.rd)).ro)

\* C8 (as claimed): a ratio printed for a device or for a generation is
\* zero whenever the median of Duration A it divides by is zero.
C8_RatioZeroOnZeroMedian ==
    \A k \in 1..Len(report) :
        (report[k].kind \in {"chip", "era"} /\ IsZero(report[k].t1)) =>
            IsZero(report[k].ratio)

\* C9 (as claimed): in a row, the Duration B field is empty exactly when
\* Duration B is absent and the error field is empty exactly when no source
\* resolved; a value that is present is written with 4 decimal places.
C9_OptionalFields ==
    (Processed /\ RowsOfLast # {}) =>
        /\ LastRow[5] = (IF IsNone(last.rd.t2) THEN ""
                         ELSE Fmt4(ToMicro(Val(last.rd.t2))))
        /\ LastRow[6] = RoField(ResolveRo(last.rd).ro)

----------------------------------------------------------------------------
(* Properties of the statistics (SpecStat, Spec) *)

\* the k-th smallest value of a list, by counting: the order of the list
\* plays no part
Kth(s, k) ==
    CHOOSE v \in {s[j] : j \in 1..Len(s)} :
        /\ Cardinality({j \in 1..Len(s) : s[j] < v}) < k
        /\ Cardinality({j \in 1..Len(s) : s[j] <= v}) >= k

\* the statistical median of the values of a non-empty list
StatMedian(s) ==
    Num((Kth(s, (Len(s) + 1) \div 2) + Kth(s, Len(s) \div 2 + 1)) \div 2)

Scaled(s) == [j \in 1..Len(s) |-> ToMicro(s[j])]

\* the statistics of a device have just been printed
AfterChipStats == pc = "chip" /\ c > 1

LastLine == report[Len(report)]

\* C6: when the statistics of a device with at least one Duration A are
\* printed, the median printed is the statistical median of the Duration A
\* values (x 1e6) that the library yielded for the qubits of this device,
\* each counted once, and the count printed is their number.
C6_DeviceMedian ==
    (AfterChipStats /\ yielded.t1 # <<>>) =>
        /\ LastLine.kind = "chip"
        /\ LastLine.n = Len(yielded.t1)
        /\ LastLine.t1 = StatMedian(Scaled(yielded.t1))

\* the second device of the generation has three Duration A values, not in
\* order, and the first device had other ones
C6_Witness ==
    /\ AfterChipStats /\ c = 3
    /\ Len(yielded.t1) = 3
    /\ yielded.t1[1] < yielded.t1[2] /\ yielded.t1[3] < yielded.t1[2]
    /\ era_devices[1].t1 # era_devices[2].t1
    /\ era_devices[1].t1 # <<>>

RECURSIVE Pooled(_, _)
\* the lists f of the devices ds, one after the other
Pooled(ds, f) == IF ds = <<>> THEN <<>> ELSE Head(ds)[f] \o Pooled(Tail(ds), f)

\* the median of a pooled list: numpy's nan if it is empty
PooledMedian(s) == IF s = <<>> THEN NaN ELSE StatMedian(s)

\* the device loop of a generation is over (its summary printed or not yet)
AfterDevices == (pc = "chip" /\ c > Len(chip_list)) \/ (pc = "era" /\ e > 1)

----------------------------------------------------------------------------
(* Properties of the exported file (Spec) *)

\* int(s) for the text of an index
ParseIndex(s) == CHOOSE n \in 0..MaxQubits : ToString(n) = s

\* the counts of 1e-4 that the times of the model can be written as
Counts4 ==
    UNION {{ToMicro(t) \div 100, ToMicro(t) \div 100 + 1} :
              t \in UNION (T1Opt \cup T2Opt)}

\* float(s) for the text of a number with 4 decimal places, in counts of 1e-6
Parse4(s) == 100 * (CHOOSE n \in Counts4 : Fmt4(100 * n) = s)

\* csv.reader on the lines after the header
ReadCsv(f) ==
    [k \in 1..(Len(f) - 1) |->
        [Era |-> f[k + 1][1], Chip |-> f[k + 1][2],
         Qubit_Index |-> ParseIndex(f[k + 1][3]), T1_us |-> Parse4(f[k + 1][4]),
         T2_us |-> f[k + 1][5], Readout_Error_Pct |-> f[k + 1][6]]]

Abs(x) == IF x < 0 THEN -x ELSE x

\* C10: the exported file is the header followed by the rows emitted, in
\* order, each with the fields generation, device, index, Duration A,
\* Duration B, error percent; read back, record k is the qubit of row k,
\* its Duration A is the one the library yielded for that qubit to within
\* half a unit of the fourth decimal, and no two records have the same
\* (generation, device, index).
C10_ExportRoundTrip ==
    pc = "done" =>
        /\ Len(file) = 1 + Len(all_data_rows)
        /\ file[1] = header
        /\ \A k \in 1..Len(all_data_rows) :
             LET row == all_data_rows[k]
                 rec == ReadCsv(file)[k]
             IN  /\ Len(file[k + 1]) = 6
                 /\ <<rec.Era, rec.Chip, rec.Qubit_Index>> = <<row[1], row[2], row[3]>>
                 /\ file[k + 1][4] = row[4]
                 /\ rec.T2_us = row[5]
                 /\ rec.Readout_Error_Pct = row[6]
                 /\ \E m \in measured :
                      /\ <<m[1], m[2], m[3]>> = <<rec.Era, rec.Chip, rec.Qubit_Index>>
                      /\ Abs(rec.T1_us - ToMicro(m[4])) <= 50
        /\ \A j, k \in 1..Len(all_data_rows) :
             LET a == ReadCsv(file)[j]
                 b == ReadCsv(file)[k]
             IN  <<a.Era, a.Chip, a.Qubit_Index>> = <<b.Era, b.Chip, b.Qubit_Index>>
                    => j = k

\* a file with rows of two devices of one generation, of two generations
\* and of two qubits of one device, with a time that the fourth decimal
\* rounds
C10_Witness ==
    /\ pc = "done"
    /\ \E j, k \in 2..Len(file) :
         file[j][1] = file[k][1] /\ file[j][2] # file[k][2] /\ file[j][3] = file[k][3]
    /\ \E j, k \in 2..Len(file) : file[j][1] # file[k][1]
    /\ \E j, k \in 2..Len(file) : file[j][2] = file[k][2] /\ file[j][3] # file[k][3]
    /\ \E m \in measured : ToMicro(m[4]) % 100 # 0
    /\ \E k \in 2..Len(file) : file[k][5] = "" /\ file[k][6] = ""
    /\ \E k \in 2..Len(file) : file[k][5] # "" /\ file[k][6] # ""

----------------------------------------------------------------------------
(* Properties of a whole run (SpecRun) *)

\* every <<generation, device, index>> of the collection
AllIndices ==
    UNION {UNION {{<<backends_by_era[g].name,
                     chip_name_of(backends_by_era[g].chips[d].cls), k>> :
                        k \in 0..(backends_by_era[g].chips[d].qubits - 1)} :
                  d \in 1..Len(backends_by_era[g].chips)} :
           g \in 1..Len(backends_by_era)}

\* the positions of the lines of the report about a device or a generation
LinesOf(kinds, name) ==
    {k \in 1..Len(report) : report[k].kind \in kinds /\ report[k].name = name}

\* a first time was yielded for some qubit of the device, of the generation
DeviceHasT1(g, d) ==
    \E m \in measured :
        /\ m[1] = backends_by_era[g].name
        /\ m[2] = chip_name_of(backends_by_era[g].chips[d].cls)

EraHasT1(g) == \E m \in measured : m[1] = backends_by_era[g].name

\* the run is over and did all of this: every index of every device of every
\* generation was visited, the file was written, every device has one line,
\* "insufficient" exactly if it has no Duration A, and a generation has a
\* summary line exactly if it has some Duration A
RunComplete ==
    /\ visited = AllIndices
    /\ file # <<>>
    /\ \A g \in 1..Len(backends_by_era) :
        /\ Cardinality(LinesOf({"era"}, backends_by_era[g].name)) =
               (IF EraHasT1(g) THEN 1 ELSE 0)
        /\ \A d \in 1..Len(backends_by_era[g].chips) :
             LET name == chip_name_of(backends_by_era[g].chips[d].cls)
             IN  /\ Cardinality(LinesOf({"chip", "insufficient"}, name)) = 1
                 /\ Cardinality(LinesOf({"insufficient"}, name)) =
                        (IF DeviceHasT1(g, d) THEN 0 ELSE 1)

\* C11: whatever the accessors of the qubits do (raise, yield nothing), the
\* run reaches the export, and when it has, it has visited every generation,
\* device and qubit index; a device without Duration A has an "insufficient
\* data" line only and a generation without Duration A has no summary line.
C11_RunReachesExport ==
    /\ [](pc = "done" => RunComplete)
    /\ <>(pc = "done")

\* the run is over; the first generation has a device without Duration A
\* and a device with some, one of whose qubits had a raising accessor and
\* has no row; the second generation had no Duration A at all
C11_Witness ==
    /\ pc = "done"
    /\ Len(backends_by_era) = 2
    /\ EraHasT1(1) /\ ~DeviceHasT1(1, 1) /\ DeviceHasT1(1, 2)
    /\ ~EraHasT1(2)
    /\ Len(report) = 4
    /\ report[1].kind = "insufficient" /\ report[3].kind = "era"
    /\ report[4].kind = "insufficient"
    /\ Len(file) > 1 /\ Len(file) < Cardinality(measured) + 1
----------------------------------------------------------------------------
(* The lists of the generation and a device without Duration A (Spec) *)

\* the statistics of a device have just been printed and say "insufficient
\* data"
AfterInsufficient == AfterChipStats /\ LastLine.kind = "insufficient"

\* C17 (as claimed): when a device is reported as "insufficient data", the
\* Duration A list and the Duration B list of the generation are both what
\* they were when loop 2 took the device.
C17_NothingAppended ==
    AfterInsufficient =>
        /\ era_t1_values = era_before.t1
        /\ era_t2_values = era_before.t2

\* C17 (amended): when a device is reported as "insufficient data", the
\* Duration A list of the generation is what it was when loop 2 took the
\* device, and the Duration B list is what it was followed by the Duration B
\* values (x 1e6) that the library yielded for the qubits of the device.
C17_OnlyDurationBAppended ==
    AfterInsufficient =>
        /\ era_t1_values = era_before.t1
        /\ era_t2_values = era_before.t2 \o Scaled(yielded.t2)

\* the second device of a generation is reported as "insufficient data";
\* the first one had both durations and the second one a Duration B
C17_Witness ==
    /\ AfterInsufficient
    /\ c = 3
    /\ era_before.t1 # <<>> /\ era_before.t2 # <<>>
    /\ yielded.t1 = <<>> /\ yielded.t2 # <<>>
    /\ Len(era_t2_values) > Len(era_before.t2)
----------------------------------------------------------------------------
(* The error rates of a device and its rows (SpecDevice) *)

\* the non-empty error fields of the rows of the device in loop 3, in order
RowErrorFields ==
    LET rows == SelectSeq(all_data_rows,
                    LAMBDA r : r[1] = era_name /\ r[2] = chip_name /\ r[6] # "")
    IN  [k \in 1..Len(rows) |-> rows[k][6]]

\* the values of a list of percentages, written as the fields of a row are
AsFields(ros) == [k \in 1..Len(ros) |-> Fmt4(ros[k])]

\* the error rates resolved for the qubits of the device that have a first
\* time
ResolvedWithT1 == SelectSeq(yielded.ro, LAMBDA r : r.t1)

\* C19 (as claimed): while loop 3 is on a device, and when it is over, the
\* error-rate list of the device holds exactly the values of the non-empty
\* error fields of the rows of the device.
C19_AccumulatorIsRowErrors ==
    pc = "qubit" => AsFields(chip_ro) = RowErrorFields

\* C19 (amended): the error-rate list of the device holds, in index order,
\* the value that the chain resolved for every qubit whose pass reached the
\* end of the chain, with or without a first time; the non-empty error
\* fields of the rows of the device are those of the qubits with Duration A.
C19_AccumulatorIsResolved ==
    pc = "qubit" =>
        /\ chip_ro = [k \in 1..Len(yielded.ro) |-> yielded.ro[k].pct]
        /\ RowErrorFields =
               [k \in 1..Len(ResolvedWithT1) |-> Fmt4(ResolvedWithT1[k].pct)]

\* loop 3 is over for a device with two error rates, the first one of a
\* qubit with Duration A and a row, the second one of a qubit without
C19_Witness ==
    /\ pc = "qubit" /\ i = num_qubits
    /\ Len(chip_ro) = 2 /\ Len(yielded.ro) = 2
    /\ yielded.ro[1].t1 /\ ~yielded.ro[2].t1
    /\ Len(RowErrorFields) = 1
----------------------------------------------------------------------------
(* Properties of the cleaning of the roadmap table (SpecClean) *)

\* load_and_clean_data has returned a table
Loaded == ~IsNone(df)

\* load_and_clean_data has been called on a file that exists
LoadOver == ~IsNone(data_file) /\ ppc # "load"

\* the count (in thousandths) that a cell stands for: a plain number, an
\* integer with separators, a number with the K marker; none for the others
ExpectedCount(cell) ==
    CASE cell = <<"1", "2", "8">> -> Some(128000)
      [] cell = <<"1", "0", ",", "0", "0", "0">> -> Some(10000000)
      [] cell = <<"1", ",", "1", "2", "1">> -> Some(1121000)
      [] cell = <<"7", ".", "5", "K">> -> Some(7500000)
      [] cell = <<"7", ".", "5", "k">> -> Some(7500000)
      [] OTHER -> None

\* the rows of the file whose cell stands for a count, with that count
ExpectedRows(t) ==
    LET kept == SelectSeq([k \in 1..Len(t) |-> k],
                    LAMBDA k : ~IsNone(ExpectedCount(t[k].Qubits)))
    IN  [j \in 1..Len(kept) |->
            [Roadmap_Year |-> t[kept[j]].Roadmap_Year,
             Qubits |-> Val(ExpectedCount(t[kept[j]].Qubits)),
             Status |-> t[kept[j]].Status,
             Label |-> t[kept[j]].Label,
             Year |-> t[kept[j]].Year]]

\* C12: the table that load_and_clean_data returns has, in the order of the
\* file, the rows whose count cell is a plain number ("128" is 128), an
\* integer with comma separators ("10,000" is 10000) or a number with the K
\* marker in either case ("7.5K" is 7500), with that number as the count;
\* every row of it has a count.
C12_CountsNormalized ==
    Loaded => Val(df) = ExpectedRows(Val(data_file))

\* a file with "10,000", "7.5k" and "abc" has been loaded: two rows are left
C12_Witness ==
    /\ Loaded
    /\ Len(Val(data_file)) = 3
    /\ Val(data_file)[1].Qubits = <<"1", "0", ",", "0", "0", "0">>
    /\ Val(data_file)[2].Qubits = <<"7", ".", "5", "k">>
    /\ Val(data_file)[3].Qubits = <<"a", "b", "c">>
    /\ Len(Val(df)) = 2
    /\ Val(df)[1].Qubits = 10000000 /\ Val(df)[2].Qubits = 7500000

\* C13 (as claimed): whatever the texts of the count cells of the file,
\* load_and_clean_data raises nothing and returns the table of the rows
\* whose cell stands for a count; the other rows, and only they, are
\* dropped.
C13_UnparseableIsDropped ==
    LoadOver => Loaded /\ Val(df) = ExpectedRows(Val(data_file))

\* C14: when the input file does not exist, load_and_clean_data prints one
\* warning and returns no table; no fit is made, nothing is rendered, no
\* image file is written and no exception is raised.
C14_MissingFileDoesNothing ==
    (IsNone(data_file) /\ ppc # "load") =>
        /\ warnings = 1
        /\ df = None
        /\ fit_calls = <<>> /\ df_lines = EmptyFrame
        /\ saved = <<>>
        /\ raised = ""
        /\ ppc \in {"main", "done"}

\* the plotter is over without an input file
C14_Witness ==
    /\ IsNone(data_file)
    /\ ppc = "done"
    /\ warnings = 1

----------------------------------------------------------------------------
(* Properties of the fits and of the renderers (SpecPlot) *)

\* calculate_regression_data has returned
FitOver == Loaded /\ ppc \notin {"load", "main"}

\* the sums over the pairs of points of a subset: the slope of the
\* least-squares line is Cov / Var when the years are not all the same
Cov(sub) ==
    SumSeq([k \in 1..Len(sub) |->
        SumSeq([j \in 1..Len(sub) |->
            IF j < k
            THEN (sub[k].Year - sub[j].Year) *
                 (Log2Milli(sub[k].Qubits) - Log2Milli(sub[j].Qubits))
            ELSE 0])])

Var(sub) ==
    SumSeq([k \in 1..Len(sub) |->
        SumSeq([j \in 1..Len(sub) |->
            IF j < k
            THEN (sub[k].Year - sub[j].Year) * (sub[k].Year - sub[j].Year)
            ELSE 0])])

\* the legend of a subset: the doubling period 12 / slope in months, with
\* one decimal, if the slope is positive.  With one year only the line of
\* least norm has the slope mean(log2) / (2 * year).
ExpectedLegend(name, sub) ==
    LET n == IF Var(sub) = 0
             THEN SumSeq([k \in 1..Len(sub) |-> Log2Milli(sub[k].Qubits)])
             ELSE Cov(sub)
        d == IF Var(sub) = 0
             THEN 2 * SumSeq([k \in 1..Len(sub) |-> sub[k].Year])
             ELSE Var(sub)
    IN  IF n > 0
        THEN name \o " (Double: " \o Fmt1(RoundHalfEven(12 * 10 * 1000 * d, n)) \o " months)"
        ELSE name \o " (No Growth)"

\* C15: an invocation of the fitter appends a trend line exactly if its
\* subset has at least two points; the line is two samples, the first at the
\* least year of the subset and the second at the greatest, both with the
\* legend of the subset: the doubling period 12 / slope if the slope is
\* positive, "No Growth" otherwise.
C15_TrendLineIffTwoPoints ==
    \A k \in 1..Len(fit_calls) :
        LET cl == fit_calls[k]
        IN  /\ (cl.out # <<>>) <=> (Len(cl.sub) >= 2)
            /\ cl.out # <<>> =>
                /\ Len(cl.out) = 2
                /\ \A j \in 1..Len(cl.sub) :
                      cl.out[1].Year <= cl.sub[j].Year /\ cl.sub[j].Year <= cl.out[2].Year
                /\ \E j \in 1..Len(cl.sub) : cl.sub[j].Year = cl.out[1].Year
                /\ \E j \in 1..Len(cl.sub) : cl.sub[j].Year = cl.out[2].Year
                /\ cl.out[1].Legend_Label = ExpectedLegend(cl.name, cl.sub)
                /\ cl.out[2].Legend_Label = ExpectedLegend(cl.name, cl.sub)

\* the fits are made: a subset of two points that doubles every year has
\* its line from 2021 to 2024, a subset of one point has none
C15_Witness ==
    /\ FitOver
    /\ \E k \in 1..Len(fit_calls) :
         /\ Len(fit_calls[k].sub) = 2
         /\ Len(fit_calls[k].out) = 2
         /\ fit_calls[k].out[1].Year = 2021 /\ fit_calls[k].out[2].Year = 2024
         /\ fit_calls[k].out[1].Legend_Label = "2022 Roadmap (Double: 12.0 months)"
    /\ \E k \in 1..Len(fit_calls) :
         Len(fit_calls[k].sub) = 1 /\ fit_calls[k].out = <<>>

\* the rows of a table with a property, in order
Points(t, P(_)) == SelectSeq(t, P)

\* the most recent roadmap year of a table with rows
MostRecent(t) ==
    CHOOSE y \in {t[k].Roadmap_Year : k \in 1..Len(t)} :
        \A k \in 1..Len(t) : t[k].Roadmap_Year <= y

HasNighthawk(r) == \E k \in 1..Len(r.Label) : r.Label[k] \in {"Nighthawk", "nighthawk"}

\* the first two invocations: roadmap year 2020, roadmap year 2022 without
\* Heron
FirstTwoFits(t) ==
    /\ Len(fit_calls) >= 2
    /\ fit_calls[1].sub = Points(t, LAMBDA r : r.Roadmap_Year = 2020)
    /\ fit_calls[2].sub = Points(t, LAMBDA r : r.Roadmap_Year = 2022 /\ r.Label # <<"Heron">>)

\* C16 (as claimed): the fitter is invoked on exactly four subsets of the
\* cleaned table: roadmap year 2020; roadmap year 2022 without Heron; the
\* points of the most recent roadmap year of the table whose label does not
\* contain Nighthawk, and those whose label does.
C16_FourSubsetsOfLatestYear ==
    FitOver =>
        LET t == Val(df)
        IN  /\ Len(fit_calls) = 4
            /\ FirstTwoFits(t)
            /\ fit_calls[3].sub =
                   Points(t, LAMBDA r : r.Roadmap_Year = MostRecent(t) /\ ~HasNighthawk(r))
            /\ fit_calls[4].sub =
                   Points(t, LAMBDA r : r.Roadmap_Year = MostRecent(t) /\ HasNighthawk(r))

\* the year of the last two invocations: 2025 if the table has it, the most
\* recent roadmap year otherwise
YearOfLastFits(t) ==
    IF \E k \in 1..Len(t) : t[k].Roadmap_Year = 2025 THEN 2025 ELSE MostRecent(t)

\* C16 (amended): the first two invocations are on roadmap year 2020 and on
\* roadmap year 2022 without Heron.  A table with rows has two more, on the
\* points of roadmap year 2025 (of the most recent roadmap year if the table
\* has no 2025): those of a year up to 2023 whose label neither contains
\* Nighthawk nor is Heron, and those whose label contains Nighthawk.  A
\* table without rows has the first two only.
C16_FitSubsets ==
    FitOver =>
        LET t == Val(df)
        IN  /\ FirstTwoFits(t)
            /\ Len(fit_calls) = (IF t = <<>> THEN 2 ELSE 4)
            /\ t # <<>> =>
                /\ fit_calls[3].sub =
                       Points(t, LAMBDA r :
                           /\ r.Roadmap_Year = YearOfLastFits(t)
                           /\ r.Year <= 2023
                           /\ ~HasNighthawk(r)
                           /\ r.Label # <<"Heron">>)
                /\ fit_calls[4].sub =
                       Points(t, LAMBDA r :
                           r.Roadmap_Year = YearOfLastFits(t) /\ HasNighthawk(r))
                /\ fit_calls[3].roadmap_year = YearOfLastFits(t)
                /\ fit_calls[4].roadmap_year = YearOfLastFits(t)

\* the fits are made on a table with the roadmap years 2025 and 2027: the
\* last two are on 2025, the first of them on one point, the second on one
\* Nighthawk point
C16_Witness ==
    /\ FitOver
    /\ \E k \in 1..Len(Val(df)) : Val(df)[k].Roadmap_Year = 2027
    /\ Len(fit_calls) = 4
    /\ fit_calls[3].roadmap_year = 2025
    /\ Len(fit_calls[3].sub) = 1 /\ Len(fit_calls[4].sub) = 1

\* C18 (as claimed): once load_and_clean_data has returned a table, no
\* exception leaves the fit or a renderer, and the plotter ends with its
\* six image files written.
C18_PipelineCompletes ==
    Loaded =>
        /\ raised = ""
        /\ ppc # "failed"
        /\ ppc = "done" => Len(saved) = 6
====
